---- MODULE Spec2Model ----
(***************************************************************************)
(* State-machine model of static/js/script.js: the three input paths       *)
(* (text form, audio-file form, microphone recording), the shared loading  *)
(* overlay and results panel, the toast notifications and the recording    *)
(* controls.                                                               *)
(*                                                                         *)
(* The page runs on one event loop: every handler (a DOM listener, a       *)
(* promise reaction chain, an interval callback) runs to completion, so    *)
(* each is one action.  The platform is the environment: it resolves or    *)
(* rejects getUserMedia, delivers dataavailable/stop events after a        *)
(* MediaRecorder.stop(), settles fetch(), and advances Date.now().  A stop *)
(* event is delivered only for a recorder that stop() was called on.       *)
(***************************************************************************)
EXTENDS Integers, Sequences, FiniteSets, TLC

(* ------------------------------ bounds --------------------------------- *)
\* user actions that reach the platform: form submissions that reach fetch()
\* and calls of startRecording()
MaxActions == 2
\* dataavailable events delivered while a recorder is recording (each recorder
\* delivers one more when it stops)
MaxChunks == 1
\* advances of the wall clock
MaxClockSteps == 1

(* ------------------------- program constants --------------------------- *)
TimerIntervalMs == 1000
MsPerSecond == 1000
SecondsPerMinute == 60
PadWidth == 2

IdleStatusText == "Click the microphone to start recording"
RecordingStatusText == "Recording..."
ProcessingStatusText == "Processing audio..."
TextFailedMessage == "Failed to process text. Please try again."
AudioFailedMessage == "Failed to process audio. Please try again."
RecordingFailedMessage == "Failed to process recording. Please try again."
GenericErrorMessage == "An error occurred. Please try again."
MicrophoneErrorMessage == "Could not access microphone. Please check your permissions."
NoTextFallback == "No text recognized"
NoIslFallback == "No ISL conversion available"
StaticPrefix == "/static/"

(* --------------------------- JavaScript values ------------------------- *)
\* an optional property of a JSON object: <<>> when missing, <<v>> when set
Absent == <<>>
Some(v) == <<v>>

\* JavaScript truthiness of an optional string property
Truthy(p) == p # Absent /\ p[1] # ""

\* faulty variant: a ?? fallback, which keeps an empty string
OrElseMissingOnly(p, fallback) == IF p # Absent THEN p[1] ELSE fallback

\* a || fallback
OrElse(p, fallback) == IF Truthy(p) THEN p[1] ELSE fallback

(* String.prototype.trim on a sequence of characters *)
Whitespace == {" "}

RECURSIVE TrimStart(_)
TrimStart(s) ==
  IF s # <<>> /\ Head(s) \in Whitespace THEN TrimStart(Tail(s)) ELSE s

RECURSIVE TrimEnd(_)
TrimEnd(s) ==
  IF s # <<>> /\ s[Len(s)] \in Whitespace
    THEN TrimEnd(SubSeq(s, 1, Len(s) - 1))
    ELSE s

\* faulty variant: the value of the field is used without trim()
TrimForgotten(s) == s

Trim(s) == TrimEnd(TrimStart(s))

(* Number.prototype.toString and String.prototype.padStart on digit sequences *)
DigitChar(d) == CASE d = 0 -> "0" [] d = 1 -> "1" [] d = 2 -> "2" [] d = 3 -> "3"
                  [] d = 4 -> "4" [] d = 5 -> "5" [] d = 6 -> "6" [] d = 7 -> "7"
                  [] d = 8 -> "8" [] d = 9 -> "9"

RECURSIVE NumToString(_)
NumToString(n) ==
  IF n < 10 THEN <<DigitChar(n)>>
  ELSE Append(NumToString(n \div 10), DigitChar(n % 10))

RECURSIVE PadStart(_, _, _)
PadStart(s, width, fill) ==
  IF Len(s) >= width THEN s ELSE PadStart(<<fill>> \o s, width, fill)

\* faulty variant: the two numbers are written without padding
TimerTextUnpadded(nowMs, startMs) ==
  LET elapsedSeconds == (nowMs - startMs) \div MsPerSecond
  IN  NumToString(elapsedSeconds \div SecondsPerMinute) \o <<":">>
        \o NumToString(elapsedSeconds % SecondsPerMinute)

\* the text updateRecordingTimer() computes from Date.now() and recordingStartTime
TimerText(nowMs, startMs) ==
  LET elapsedSeconds == (nowMs - startMs) \div MsPerSecond
      minutes == PadStart(NumToString(elapsedSeconds \div SecondsPerMinute), PadWidth, "0")
      seconds == PadStart(NumToString(elapsedSeconds % SecondsPerMinute), PadWidth, "0")
  IN  minutes \o <<":">> \o seconds

(* ------------------------------ inputs --------------------------------- *)
Chars == {" ", "a"}
RawTexts == {<<>>, <<" ">>, <<" ", " ">>, <<"a">>, <<" ", "a", " ">>}
NoFile == "none"
Files == {NoFile, "speech.wav"}
\* half a tick, just short of a minute, and a hundred minutes
ClockSteps == {TimerIntervalMs \div 2,
               SecondsPerMinute * MsPerSecond - TimerIntervalMs \div 2,
               100 * SecondsPerMinute * MsPerSecond}

\* what a request can end with: fetch() rejects, response.json() rejects,
\* or response.json() yields a JSON value (null, or an object whose properties
\* status, english_text, isl_text, video_path may each be missing)
Statuses == {Absent, Some("success"), Some("error")}
Payload(e, i, v) == [english_text |-> e, isl_text |-> i, video_path |-> v]
Payloads ==
  { Payload(Some("hello"), Some("HELLO"), Some("signs/hello.mp4")),
    Payload(Some("hello"), Absent, Some("")),
    Payload(Some(""), Some("HELLO"), Absent),
    Payload(Absent, Some(""), Some("signs/hello.mp4")) }
Data(st, p) == [status |-> st, english_text |-> p.english_text,
                isl_text |-> p.isl_text, video_path |-> p.video_path]
NoData == Data(Absent, Payload(Absent, Absent, Absent))
FullPayload == Payload(Some("hello"), Some("HELLO"), Some("signs/hello.mp4"))
Responses ==
  {[kind |-> k, data |-> NoData] : k \in {"reject", "badjson", "null"}}
  \cup {[kind |-> "object", data |-> Data(Some("success"), p)] : p \in Payloads}
  \cup {[kind |-> "object", data |-> Data(st, FullPayload)] : st \in Statuses}

\* what can happen in the grant handler after the UI was flipped
SetupOutcomes == {"ok", "constructorThrows", "startThrows"}

(* ------------------------------- state --------------------------------- *)
VARIABLES
  startRecordingBtn,      \* [hidden, recording]: classes d-none and recording
  stopRecordingBtn,       \* [hidden]
  recordingStatus,        \* textContent
  recordingTimer,         \* [hidden, text]
  loadingOverlay,         \* [hidden]
  resultsSection,         \* [hidden]
  englishTextResult,      \* textContent
  islTextResult,          \* textContent
  islVideo,               \* [src]
  mediaRecorder,          \* 0 (undefined) or the index of its stream
  audioChunks,            \* sequence of <<stream, n>>
  recordingStartTime,
  recordingTimerInterval, \* 0 (undefined) or the latest interval handle
  intervals,              \* handles of the intervals that are running
  streams,                \* the capture streams granted so far, see NewStream
  permissionRequests,     \* getUserMedia promises still pending
  starts,                 \* calls of startRecording so far
  subs,                   \* the fetch() calls in flight, oldest first, see NewSubmission
  fetches,                \* [text, file, recording]: fetch() calls made so far
  settledCount,           \* promise chains that have run
  toasts,                 \* showError calls so far
  accepted,               \* [text, file, stop]: user actions that passed the guard
  now,                    \* Date.now(), in ms since page load
  clockSteps,
  earlyChunks,            \* dataavailable events delivered before a stop
  lastEvent               \* the handler that ran last

uiVars == <<startRecordingBtn, stopRecordingBtn, recordingStatus, recordingTimer>>
panelVars == <<resultsSection, englishTextResult, islTextResult, islVideo>>
recVars == <<mediaRecorder, audioChunks, recordingStartTime, recordingTimerInterval,
             intervals, streams>>
vars == <<startRecordingBtn, stopRecordingBtn, recordingStatus, recordingTimer,
          loadingOverlay, resultsSection, englishTextResult, islTextResult, islVideo,
          mediaRecorder, audioChunks, recordingStartTime, recordingTimerInterval,
          intervals, streams, permissionRequests, starts, subs, fetches,
          settledCount, toasts, accepted, now, clockSteps, earlyChunks, lastEvent>>
subVars == <<subs, fetches, settledCount>>

\* The handler that ran last and what it did.  op: the handler; what: its input
\* ("blank" or "filled") or the outcome of the request; mode and overlapped: the
\* submission a promise chain belongs to; hides, renders, loads: its calls of
\* hideLoading(), displayResults() and islVideo.load(); messages: what it passed
\* to showError(), in order.
Handled(op, what, mode, overlapped, hides, renders, loads, messages) ==
  [op |-> op, what |-> what, mode |-> mode, overlapped |-> overlapped,
   hides |-> hides, renders |-> renders, loads |-> loads, messages |-> messages,
   data |-> NoData]
Event(op, what) == Handled(op, what, "-", FALSE, 0, 0, 0, <<>>)

\* the content of the text field is empty or whitespace only
IsBlank(raw) == \A k \in 1..Len(raw) : raw[k] \in Whitespace

InputKind(blank) == IF blank THEN "blank" ELSE "filled"

\* the presentation the reset code of processRecordedAudio establishes
IdleButton == [hidden |-> FALSE, recording |-> FALSE]

\* The elements as the page's markup delivers them.  The markup is not part of
\* the script: the recording controls start in the presentation the script
\* resets them to, the overlay and the results section start hidden.
PageLoaded ==
  /\ startRecordingBtn = IdleButton
  /\ stopRecordingBtn = [hidden |-> TRUE]
  /\ recordingStatus = IdleStatusText
  /\ recordingTimer = [hidden |-> TRUE, text |-> TimerText(0, 0)]
  /\ loadingOverlay = [hidden |-> TRUE]
  /\ resultsSection = [hidden |-> TRUE]
  /\ englishTextResult = ""
  /\ islTextResult = ""
  /\ islVideo = [src |-> ""]

Init ==
  /\ PageLoaded
  /\ mediaRecorder = 0
  /\ audioChunks = <<>>
  /\ recordingStartTime = 0
  /\ recordingTimerInterval = 0
  /\ intervals = {}
  /\ streams = <<>>
  /\ permissionRequests = 0
  /\ starts = 0
  /\ subs = <<>>
  /\ fetches = [text |-> 0, file |-> 0, recording |-> 0]
  /\ settledCount = 0
  /\ toasts = 0
  /\ accepted = [text |-> 0, file |-> 0, stop |-> 0]
  /\ now = 0
  /\ clockSteps = 0
  /\ earlyChunks = 0
  /\ lastEvent = Event("load", "-")

(* ---------------------- showLoading / fetch ---------------------------- *)
\* one fetch() call whose promise chain has not run yet
NewSubmission(mode, body, session) ==
  [mode |-> mode, body |-> body, session |-> session, shows |-> 1,
   overlapped |-> subs # <<>>]

\* showLoading() followed by fetch(route, {method: 'POST', body: formData})
Dispatch(mode, body, session) ==
  /\ loadingOverlay' = [hidden |-> FALSE]
  /\ subs' = Append([i \in 1..Len(subs) |-> [subs[i] EXCEPT !.overlapped = TRUE]],
                    NewSubmission(mode, body, session))
  /\ fetches' = [fetches EXCEPT ![mode] = @ + 1]
  /\ UNCHANGED settledCount

\* showError(message)
ShowErrors(messages) == toasts' = toasts + Len(messages)

ActionsLeft == fetches.text + fetches.file + starts < MaxActions

(* ------------------------- handleTextSubmit ---------------------------- *)
HandleTextSubmit(raw) ==
  LET textInput == Trim(raw) IN
  IF textInput = <<>>
    THEN /\ lastEvent' = Event("textSubmit", InputKind(IsBlank(raw)))
         /\ UNCHANGED <<uiVars, panelVars, recVars, loadingOverlay, permissionRequests,
                        starts, subVars, toasts, accepted, now, clockSteps, earlyChunks>>
    ELSE /\ ActionsLeft
         /\ Dispatch("text", textInput, 0)
         /\ accepted' = [accepted EXCEPT !.text = @ + 1]
         /\ lastEvent' = Event("textSubmit", InputKind(IsBlank(raw)))
         /\ UNCHANGED <<uiVars, panelVars, recVars, permissionRequests, starts, toasts,
                        now, clockSteps, earlyChunks>>

(* ---------------------- handleAudioUploadSubmit ------------------------ *)
HandleAudioUploadSubmit(audioFile) ==
  IF audioFile = NoFile
    THEN /\ lastEvent' = Event("fileSubmit", InputKind(audioFile = NoFile))
         /\ UNCHANGED <<uiVars, panelVars, recVars, loadingOverlay, permissionRequests,
                        starts, subVars, toasts, accepted, now, clockSteps, earlyChunks>>
    ELSE /\ ActionsLeft
         /\ Dispatch("file", <<audioFile>>, 0)
         /\ accepted' = [accepted EXCEPT !.file = @ + 1]
         /\ lastEvent' = Event("fileSubmit", InputKind(audioFile = NoFile))
         /\ UNCHANGED <<uiVars, panelVars, recVars, permissionRequests, starts, toasts,
                        now, clockSteps, earlyChunks>>

(* ---------------- the .then(...).then(...).catch(...) chain ------------- *)
\* response.json() resolved, so the second then-handler runs
ThenRuns(r) == r.kind \in {"null", "object"}

\* data.status on null raises a TypeError, after hideLoading() (and, for a
\* recording, after the reset of the recording controls)
ThenThrows(r) == r.kind = "null"

\* the catch-handler runs when fetch, json() or the then-handler failed
CatchRuns(r) == r.kind \in {"reject", "badjson"} \/ ThenThrows(r)

\* data.status === 'success'
IsSuccess(r) == r.kind = "object" /\ r.data.status = Some("success")

\* faulty variant: the recording handler kept the message of the upload handler
FailureMessageCopied(mode) ==
  CASE mode = "text" -> TextFailedMessage
    [] mode = "file" -> AudioFailedMessage
    [] mode = "recording" -> AudioFailedMessage

\* the message of the else-branch of each handler
FailureMessage(mode) ==
  CASE mode = "text" -> TextFailedMessage
    [] mode = "file" -> AudioFailedMessage
    [] mode = "recording" -> RecordingFailedMessage

\* calls of hideLoading() by the chain
HideCalls(r) == (IF ThenRuns(r) THEN 1 ELSE 0) + (IF CatchRuns(r) THEN 1 ELSE 0)

\* messages passed to showError() by the chain, in order
ErrorMessages(mode, r) ==
  (IF ThenRuns(r) /\ ~ThenThrows(r) /\ ~IsSuccess(r) THEN <<FailureMessage(mode)>> ELSE <<>>)
  \o (IF CatchRuns(r) THEN <<GenericErrorMessage>> ELSE <<>>)

\* faulty variant: the then-handler renders whatever the status is
RenderCallsAnyStatus(r) == IF ThenRuns(r) /\ ~ThenThrows(r) THEN 1 ELSE 0

\* calls of displayResults() by the chain
RenderCalls(r) == IF ThenRuns(r) /\ IsSuccess(r) THEN 1 ELSE 0

\* calls of islVideo.load() by the chain
LoadCalls(r) == IF RenderCalls(r) > 0 /\ Truthy(r.data.video_path) THEN 1 ELSE 0

Outcome(r) ==
  IF r.kind = "object"
    THEN (IF IsSuccess(r) THEN "success" ELSE "rejected")
    ELSE r.kind

\* faulty variant: the catch-handler does not call hideLoading()
OverlayCatchForgets(r) ==
  IF ThenRuns(r) THEN [hidden |-> TRUE] ELSE loadingOverlay

\* the overlay after the chain: every branch calls hideLoading()
OverlayAfterSettle(r) ==
  IF HideCalls(r) > 0 THEN [hidden |-> TRUE] ELSE loadingOverlay

\* faulty variant: a failed request is sent again
SubsAfterSettleRetry(i, r) ==
  SubSeq(subs, 1, i - 1) \o SubSeq(subs, i + 1, Len(subs))
  \o (IF IsSuccess(r) THEN <<>> ELSE <<subs[i]>>)

\* faulty variant: settling one request abandons the others
SubsAfterSettleAbandons(i, r) == <<>>

\* the requests in flight after the chain of submission i ran: the chain calls
\* fetch() in no branch and touches no other request
SubsAfterSettle(i, r) ==
  SubSeq(subs, 1, i - 1) \o SubSeq(subs, i + 1, Len(subs))

\* faulty variant: only the then-handler resets the recording controls
ResetsOnlyInThen(mode, r) == mode = "recording" /\ ThenRuns(r)

\* both handlers of processRecordedAudio reset the recording controls
ResetsRecordingUi(mode, r) == mode = "recording" /\ (ThenRuns(r) \/ CatchRuns(r))

(* --------------------------- displayResults ---------------------------- *)
\* the argument of the displayResults() call, if the chain makes one
RenderedData(r) == IF RenderCalls(r) > 0 THEN r.data ELSE NoData

\* faulty variant: a payload without recognized text hides the results again
DisplayResultsHidesEmpty(data) ==
  /\ englishTextResult' = OrElse(data.english_text, NoTextFallback)
  /\ islTextResult' = OrElse(data.isl_text, NoIslFallback)
  /\ islVideo' = IF Truthy(data.video_path)
                   THEN [src |-> StaticPrefix \o data.video_path[1]]
                   ELSE [src |-> ""]
  /\ resultsSection' = [hidden |-> ~Truthy(data.english_text)]

\* faulty variant: without a video path the old video source is kept
DisplayResultsKeepsVideo(data) ==
  /\ englishTextResult' = OrElse(data.english_text, NoTextFallback)
  /\ islTextResult' = OrElse(data.isl_text, NoIslFallback)
  /\ islVideo' = IF Truthy(data.video_path)
                   THEN [src |-> StaticPrefix \o data.video_path[1]]
                   ELSE islVideo
  /\ resultsSection' = [hidden |-> FALSE]

DisplayResults(data) ==
  /\ englishTextResult' = OrElse(data.english_text, NoTextFallback)
  /\ islTextResult' = OrElse(data.isl_text, NoIslFallback)
  /\ islVideo' = IF Truthy(data.video_path)
                   THEN [src |-> StaticPrefix \o data.video_path[1]]
                   ELSE [src |-> ""]
  /\ resultsSection' = [hidden |-> FALSE]

FetchSettled(i, r) ==
  /\ i \in 1..Len(subs)
  /\ loadingOverlay' = OverlayAfterSettle(r)
  /\ IF ResetsRecordingUi(subs[i].mode, r)
       THEN /\ startRecordingBtn' = IdleButton
            /\ stopRecordingBtn' = [hidden |-> TRUE]
            /\ recordingStatus' = IdleStatusText
            /\ recordingTimer' = [recordingTimer EXCEPT !.hidden = TRUE]
       ELSE UNCHANGED uiVars
  /\ IF RenderCalls(r) > 0 THEN DisplayResults(r.data) ELSE UNCHANGED panelVars
  /\ ShowErrors(ErrorMessages(subs[i].mode, r))
  /\ subs' = SubsAfterSettle(i, r)
  /\ settledCount' = settledCount + 1
  /\ UNCHANGED fetches
  /\ lastEvent' = [Handled("fetchSettled", Outcome(r), subs[i].mode, subs[i].overlapped,
                            HideCalls(r), RenderCalls(r), LoadCalls(r),
                            ErrorMessages(subs[i].mode, r))
                      EXCEPT !.data = RenderedData(r)]
  /\ UNCHANGED <<recVars, permissionRequests, starts, accepted, now, clockSteps, earlyChunks>>

(* ----------------------------- recording ------------------------------- *)
\* a MediaStream with its track, and the MediaRecorder built on it (if any)
NewStream(recorder) ==
  [tracks |-> "live", trackStops |-> 0, recorder |-> recorder, stopQueued |-> FALSE,
   chunks |-> 0, stopCalls |-> 0, uploads |-> 0]

\* startRecording(): navigator.mediaDevices.getUserMedia({audio: true})
StartRecording ==
  /\ ActionsLeft
  /\ starts' = starts + 1
  /\ permissionRequests' = permissionRequests + 1
  /\ lastEvent' = Event("startRecording", "-")
  /\ UNCHANGED <<uiVars, panelVars, recVars, loadingOverlay, subVars, toasts, accepted,
                 now, clockSteps, earlyChunks>>

\* getUserMedia rejected: the catch-handler of startRecording
PermissionDenied ==
  /\ permissionRequests > 0
  /\ permissionRequests' = permissionRequests - 1
  /\ ShowErrors(<<MicrophoneErrorMessage>>)
  /\ lastEvent' = Handled("permissionDenied", "-", "-", FALSE, 0, 0, 0,
                           <<MicrophoneErrorMessage>>)
  /\ UNCHANGED <<uiVars, panelVars, recVars, loadingOverlay, starts, subVars, accepted,
                 now, clockSteps, earlyChunks>>

\* getUserMedia resolved: the then-handler of startRecording.  new MediaRecorder
\* or mediaRecorder.start() may throw; the catch-handler then only notifies.
PermissionGranted(outcome) ==
  LET s == Len(streams) + 1
      ok == outcome = "ok"
  IN
  /\ permissionRequests > 0
  /\ permissionRequests' = permissionRequests - 1
  /\ startRecordingBtn' = [hidden |-> TRUE, recording |-> startRecordingBtn.recording \/ ok]
  /\ stopRecordingBtn' = [hidden |-> FALSE]
  /\ recordingStatus' = RecordingStatusText
  /\ recordingTimer' = [hidden |-> FALSE,
                        text |-> IF ok THEN TimerText(now, now) ELSE recordingTimer.text]
  /\ streams' = Append(streams,
                       NewStream(CASE outcome = "constructorThrows" -> "none"
                                   [] outcome = "startThrows" -> "inactive"
                                   [] ok -> "recording"))
  /\ mediaRecorder' = IF outcome = "constructorThrows" THEN mediaRecorder ELSE s
  /\ audioChunks' = IF outcome = "constructorThrows" THEN audioChunks ELSE <<>>
  /\ recordingStartTime' = IF ok THEN now ELSE recordingStartTime
  /\ recordingTimerInterval' = IF ok THEN s ELSE recordingTimerInterval
  /\ intervals' = IF ok THEN intervals \cup {s} ELSE intervals
  /\ ShowErrors(IF ok THEN <<>> ELSE <<MicrophoneErrorMessage>>)
  /\ lastEvent' = Handled("permissionGranted", outcome, "-", FALSE, 0, 0, 0,
                           IF ok THEN <<>> ELSE <<MicrophoneErrorMessage>>)
  /\ UNCHANGED <<panelVars, loadingOverlay, starts, subVars, accepted, now, clockSteps, earlyChunks>>

\* the dataavailable listener: audioChunks.push(event.data)
DataAvailable(s) ==
  /\ s \in 1..Len(streams)
  /\ streams[s].recorder = "recording"
  /\ earlyChunks < MaxChunks
  /\ earlyChunks' = earlyChunks + 1
  /\ audioChunks' = Append(audioChunks, <<s, streams[s].chunks + 1>>)
  /\ streams' = [streams EXCEPT ![s].chunks = @ + 1]
  /\ lastEvent' = Event("dataavailable", "-")
  /\ UNCHANGED <<uiVars, panelVars, loadingOverlay, mediaRecorder, recordingStartTime,
                 recordingTimerInterval, intervals, permissionRequests, starts, subVars,
                 toasts, accepted, now, clockSteps>>

\* faulty variant: the state of the recorder is not looked at
CanStopAnyRecorder == mediaRecorder # 0

\* mediaRecorder && mediaRecorder.state !== 'inactive'
CanStop ==
  mediaRecorder # 0 /\ streams[mediaRecorder].recorder # "inactive"

\* stopRecording(): MediaRecorder.stop() makes the recorder inactive at once and
\* queues its last dataavailable event and its stop event
StopRecording ==
  IF CanStop
    THEN /\ streams' = [streams EXCEPT ![mediaRecorder].recorder = "inactive",
                                       ![mediaRecorder].stopQueued = TRUE,
                                       ![mediaRecorder].stopCalls = @ + 1]
         /\ recordingStatus' = ProcessingStatusText
         /\ accepted' = [accepted EXCEPT !.stop = @ + 1]
         /\ lastEvent' = Event("stopRecording", "filled")
         /\ UNCHANGED <<startRecordingBtn, stopRecordingBtn, recordingTimer, panelVars,
                        loadingOverlay, mediaRecorder, audioChunks, recordingStartTime,
                        recordingTimerInterval, intervals, permissionRequests, starts,
                        subVars, toasts, now, clockSteps, earlyChunks>>
    ELSE /\ lastEvent' = Event("stopRecording", "blank")
         /\ UNCHANGED <<uiVars, panelVars, recVars, loadingOverlay, permissionRequests,
                        starts, subVars, toasts, accepted, now, clockSteps, earlyChunks>>

\* the task MediaRecorder.stop() queued: the last dataavailable event, then the
\* stop listener, which ends in processRecordedAudio()
RecorderStopped(s) ==
  LET chunks == Append(audioChunks, <<s, streams[s].chunks + 1>>) IN
  /\ s \in 1..Len(streams)
  /\ streams[s].stopQueued
  /\ audioChunks' = chunks
  /\ intervals' = intervals \ {recordingTimerInterval}
  /\ streams' = [streams EXCEPT ![s].stopQueued = FALSE,
                                ![s].chunks = @ + 1,
                                ![s].tracks = "ended",
                                ![s].trackStops = @ + 1,
                                ![s].uploads = @ + 1]
  /\ Dispatch("recording", chunks, s)
  /\ lastEvent' = Event("recorderStopped", "-")
  /\ UNCHANGED <<uiVars, panelVars, mediaRecorder, recordingStartTime,
                 recordingTimerInterval, permissionRequests, starts, toasts, accepted,
                 now, clockSteps, earlyChunks>>

\* updateRecordingTimer() called by a running interval
TimerTick(h) ==
  /\ h \in intervals
  /\ recordingTimer' = [recordingTimer EXCEPT !.text = TimerText(now, recordingStartTime)]
  /\ lastEvent' = Event("timerTick", "-")
  /\ UNCHANGED <<startRecordingBtn, stopRecordingBtn, recordingStatus, panelVars, recVars,
                 loadingOverlay, permissionRequests, starts, subVars, toasts, accepted, now,
                 clockSteps, earlyChunks>>

\* Date.now() moves on
AdvanceClock(d) ==
  /\ clockSteps < MaxClockSteps
  /\ clockSteps' = clockSteps + 1
  /\ now' = now + d
  /\ lastEvent' = Event("clock", "-")
  /\ UNCHANGED <<uiVars, panelVars, recVars, loadingOverlay, permissionRequests, starts,
                 subVars, toasts, accepted, earlyChunks>>

(* --------------------------- specification ----------------------------- *)
Next ==
  \/ \E raw \in RawTexts : HandleTextSubmit(raw)
  \/ \E audioFile \in Files : HandleAudioUploadSubmit(audioFile)
  \/ \E i \in 1..Len(subs) : \E r \in Responses : FetchSettled(i, r)
  \/ StartRecording
  \/ PermissionDenied
  \/ \E outcome \in SetupOutcomes : PermissionGranted(outcome)
  \/ \E s \in 1..Len(streams) : DataAvailable(s)
  \/ StopRecording
  \/ \E s \in 1..Len(streams) : RecorderStopped(s)
  \/ \E h \in intervals : TimerTick(h)

Spec == Init /\ [][Next]_vars

\* the same program with Date.now() advancing
TimedNext ==
  \/ Next
  \/ \E d \in ClockSteps : AdvanceClock(d)

TimedSpec == Init /\ [][TimedNext]_vars

(* ------------------------- derived notions ----------------------------- *)
Streams == 1..Len(streams)
TotalFetches == fetches.text + fetches.file + fetches.recording
PendingStops == Cardinality({s \in Streams : streams[s].stopQueued})

\* the controller is RECORDING: the current recorder records
Recording == mediaRecorder # 0 /\ streams[mediaRecorder].recorder = "recording"

\* start button shown, stop button hidden, timer hidden, idle status text
IdlePresentation ==
  /\ ~startRecordingBtn.hidden
  /\ stopRecordingBtn.hidden
  /\ recordingTimer.hidden
  /\ recordingStatus = IdleStatusText

Failures == {"rejected", "reject", "badjson", "null"}

\* a step in which the promise chain of a request ran
Settles == settledCount' = settledCount + 1

\* everything but the record of the last handler
stateVars == <<uiVars, panelVars, recVars, loadingOverlay, permissionRequests, starts,
               subVars, toasts, accepted, now, clockSteps, earlyChunks>>

(* ------------------------------ claims --------------------------------- *)

C2_HideLoadingExactlyOnce ==
  /\ \A i \in 1..Len(subs) : subs[i].shows = 1
  /\ lastEvent.op = "fetchSettled" => lastEvent.hides = 1

\* C3: without overlap the overlay is hidden while no request is in flight,
\* visible while the single request is in flight, and hidden again right after
\* that request settled, whatever its outcome.
C3_OverlayFollowsSingleSubmission ==
  /\ subs = <<>> => loadingOverlay.hidden
  /\ (Len(subs) = 1 /\ ~subs[1].overlapped) => ~loadingOverlay.hidden
  /\ (lastEvent.op = "fetchSettled" /\ ~lastEvent.overlapped) => loadingOverlay.hidden

C3_Witness ==
  /\ lastEvent.op = "fetchSettled"
  /\ ~lastEvent.overlapped
  /\ lastEvent.what = "badjson"
  /\ loadingOverlay.hidden

\* C4: with overlapping submissions every request in flight can still settle with
\* any outcome, each promise chain runs exactly once (requests made = requests in
\* flight + chains run), and once none is in flight the overlay is hidden.
C4_OverlappingSubmissionsSettle ==
  /\ \A i \in 1..Len(subs) : \A r \in Responses : ENABLED FetchSettled(i, r)
  /\ Len(subs) + settledCount = TotalFetches
  /\ settledCount <= TotalFetches
  /\ subs = <<>> => loadingOverlay.hidden

C4_Witness ==
  /\ lastEvent.op = "fetchSettled"
  /\ lastEvent.overlapped
  /\ lastEvent.what = "success"
  /\ settledCount = 2
  /\ toasts = 1
  /\ subs = <<>>
  /\ loadingOverlay.hidden

\* C5: the promise chain of a request that ends with a non-success status or a
\* transport/parse failure raises exactly one notification, never calls
\* displayResults, and leaves the results panel as it was.
C5_FailureNotifiesOnceAndKeepsPanel ==
  [][ (Settles /\ lastEvent'.what \in Failures)
        => /\ toasts' = toasts + 1
           /\ Len(lastEvent'.messages) = 1
           /\ lastEvent'.renders = 0
           /\ UNCHANGED panelVars ]_vars

C5_Witness ==
  /\ lastEvent.op = "fetchSettled"
  /\ lastEvent.what = "rejected"
  /\ ~resultsSection.hidden
  /\ englishTextResult = NoTextFallback

\* C6: submitting the text form with blank text or the file form without a file
\* changes nothing: no request, no notification, overlay, results panel and
\* recording state as before.
C6_EmptyInputChangesNothing ==
  [][ (lastEvent'.op \in {"textSubmit", "fileSubmit"} /\ lastEvent'.what = "blank")
        => UNCHANGED stateVars ]_vars

C6_Witness ==
  /\ lastEvent.op = "textSubmit"
  /\ lastEvent.what = "blank"
  /\ subs # <<>>
  /\ Recording

\* C7: when a permission request is refused, exactly one notification is raised,
\* no session is created and no request is made, and afterwards the recording
\* controls show the idle presentation and no recorder records.
C7_DenialLeavesIdle ==
  [][ lastEvent'.op = "permissionDenied"
        => /\ toasts' = toasts + 1
           /\ UNCHANGED <<recVars, subVars>>
           /\ IdlePresentation'
           /\ \A s \in Streams : streams'[s].recorder # "recording" ]_vars

\* C8: stop() in any state other than RECORDING changes nothing: recorder,
\* chunks, timer, status text and requests stay as they were.
C8_StopOutsideRecordingIsNoOp ==
  [][ (lastEvent'.op = "stopRecording" /\ ~Recording) => UNCHANGED stateVars ]_vars

C8_Witness ==
  /\ lastEvent.op = "stopRecording"
  /\ lastEvent.what = "blank"
  /\ mediaRecorder # 0
  /\ streams[mediaRecorder].stopQueued

\* C9: at most one capture stream has live tracks and at most one recorder is
\* recording.
C9_AtMostOneSession ==
  /\ Cardinality({s \in Streams : streams[s].tracks = "live"}) <= 1
  /\ Cardinality({s \in Streams : streams[s].recorder = "recording"}) <= 1

\* C10 as stated: the stop listener leaves the recording controls in the idle
\* presentation.
C10_StopHandlerResetsUi ==
  [][ lastEvent'.op = "recorderStopped" => IdlePresentation' ]_vars

\* C10 amended: the stop listener leaves the recording controls as they are; the
\* promise chain of the recording's upload resets them to the idle presentation
\* when the upload settles, whatever its outcome.
C10_UploadSettlementResetsUi ==
  [][ /\ lastEvent'.op = "recorderStopped" => UNCHANGED uiVars
      /\ (Settles /\ lastEvent'.mode = "recording") => IdlePresentation' ]_vars

C10_Witness ==
  /\ lastEvent.op = "fetchSettled"
  /\ lastEvent.mode = "recording"
  /\ lastEvent.what = "reject"
  /\ IdlePresentation

\* nothing the platform still owes: no permission request, stop event or request
\* is pending, and no recorder is recording
Quiescent ==
  /\ permissionRequests = 0
  /\ PendingStops = 0
  /\ subs = <<>>
  /\ \A s \in Streams : streams[s].recorder # "recording"

\* overlay hidden, start button shown, stop button hidden
InteractableIdle ==
  /\ loadingOverlay.hidden
  /\ ~startRecordingBtn.hidden
  /\ stopRecordingBtn.hidden

\* C11: after any failure the UI returns to an interactable IDLE state once every
\* permission request, stop request and network request has completed.  In a
\* state where all of them have completed and no recorder is recording, no
\* completion is left that could still reset the UI, so the UI must already be
\* interactable: overlay hidden, start button shown, stop button hidden.
C11_QuiescentIsInteractableIdle == Quiescent => InteractableIdle


(* ------------------------ the recording timer -------------------------- *)
\* the recording controls alone, with Date.now() advancing: the user records
\* and stops, submits no form, and the uploads stay in flight
TimerNext ==
  \/ StartRecording
  \/ PermissionDenied
  \/ \E outcome \in SetupOutcomes : PermissionGranted(outcome)
  \/ StopRecording
  \/ \E s \in 1..Len(streams) : RecorderStopped(s)
  \/ \E h \in intervals : TimerTick(h)
  \/ \E d \in ClockSteps : AdvanceClock(d)

TimerSpec == Init /\ [][TimerNext]_vars

\* reading a timer text back: the fields on either side of the colon
Digits == {"0", "1", "2", "3", "4", "5", "6", "7", "8", "9"}
DigitValue(c) == CHOOSE d \in 0..9 : DigitChar(d) = c

RECURSIVE ParseNum(_)
ParseNum(s) ==
  IF s = <<>> THEN 0
  ELSE 10 * ParseNum(SubSeq(s, 1, Len(s) - 1)) + DigitValue(s[Len(s)])

IsNumber(s) == Len(s) > 0 /\ \A k \in 1..Len(s) : s[k] \in Digits
HasOneColon(text) == Cardinality({k \in 1..Len(text) : text[k] = ":"}) = 1
ColonAt(text) == CHOOSE k \in 1..Len(text) : text[k] = ":"
MinutesField(text) == SubSeq(text, 1, ColonAt(text) - 1)
SecondsField(text) == SubSeq(text, ColonAt(text) + 1, Len(text))
DisplayedSeconds(text) ==
  ParseNum(MinutesField(text)) * SecondsPerMinute + ParseNum(SecondsField(text))

\* whole seconds since the recording start the timer counts from
ElapsedSeconds == (now - recordingStartTime) \div MsPerSecond

\* the text is minutes:seconds of the elapsed time
ShowsElapsed(text) ==
  /\ HasOneColon(text)
  /\ IsNumber(MinutesField(text))
  /\ IsNumber(SecondsField(text))
  /\ ParseNum(MinutesField(text)) = ElapsedSeconds \div SecondsPerMinute
  /\ ParseNum(SecondsField(text)) = ElapsedSeconds % SecondsPerMinute

Ticks == lastEvent'.op = "timerTick"

\* C12 as stated: at every tick the timer text is minutes:seconds of the
\* elapsed time, both fields exactly two digits wide, and the displayed value
\* does not decrease.  Fails once a recording lasts a hundred minutes.
C12_TickShowsTwoDigitFields ==
  [][Ticks =>
       /\ ShowsElapsed(recordingTimer'.text)
       /\ Len(MinutesField(recordingTimer'.text)) = PadWidth
       /\ Len(SecondsField(recordingTimer'.text)) = PadWidth
       /\ DisplayedSeconds(recordingTimer'.text) >= DisplayedSeconds(recordingTimer.text)]_vars

\* C12 (amended): at every tick the timer text is minutes:seconds of the
\* elapsed time since the recording start; the seconds field is exactly two
\* digits wide, the minutes field is two digits wide below a hundred minutes
\* and is the unpadded number from then on; a tick never lowers the displayed
\* value.
C12_TickShowsElapsed ==
  [][Ticks =>
       /\ ShowsElapsed(recordingTimer'.text)
       /\ Len(SecondsField(recordingTimer'.text)) = PadWidth
       /\ Len(MinutesField(recordingTimer'.text)) >= PadWidth
       /\ Len(MinutesField(recordingTimer'.text)) > PadWidth
            => MinutesField(recordingTimer'.text)[1] # "0"
       /\ DisplayedSeconds(recordingTimer'.text) >= DisplayedSeconds(recordingTimer.text)]_vars

\* a tick after a hundred minutes of recording
C12_Witness ==
  /\ lastEvent.op = "timerTick"
  /\ ElapsedSeconds >= 100 * SecondsPerMinute
  /\ recordingTimer.text = <<"1", "0", "0", ":", "0", "0">>

(* ----------------------------- rendering ------------------------------- *)
\* the last handler was a settlement whose chain called displayResults()
Rendered == lastEvent.op = "fetchSettled" /\ lastEvent.renders = 1

Shown(p, fallback) == IF p = Absent \/ p = Some("") THEN fallback ELSE p[1]

\* C14: after rendering a success payload the English text element shows
\* "No text recognized" when english_text is missing or empty, the ISL text
\* element shows "No ISL conversion available" when isl_text is missing or
\* empty, and a non-empty field is shown verbatim, whatever was shown before.
C14_FallbackTexts ==
  Rendered =>
    /\ englishTextResult = Shown(lastEvent.data.english_text, "No text recognized")
    /\ islTextResult = Shown(lastEvent.data.isl_text, "No ISL conversion available")

\* a second render with an empty english_text and a non-empty isl_text
C14_Witness ==
  /\ Rendered
  /\ settledCount = 2
  /\ lastEvent.data.english_text = Some("")
  /\ englishTextResult = NoTextFallback
  /\ islTextResult = "HELLO"

\* C15: a settlement that renders leaves the results region revealed, and a
\* revealed results region is revealed after every step: no render, failed
\* submission, empty submission or recording action hides it again.
C15_ResultsStayRevealed ==
  [][((Settles /\ lastEvent'.renders = 1) \/ ~resultsSection.hidden)
       => ~resultsSection'.hidden]_vars

\* the results are still revealed after a later submission failed
C15_Witness ==
  /\ ~resultsSection.hidden
  /\ settledCount = 2
  /\ lastEvent.op = "fetchSettled"
  /\ lastEvent.what \in Failures

(* --------------------------- recording sessions ------------------------ *)
\* the chunks the capture callbacks of session s delivered, in arrival order
SessionChunks(s) == [k \in 1..streams[s].chunks |-> <<s, k>>]

\* C16: every recording upload consists of exactly the chunks its own session
\* delivered, in arrival order, none missing and none of another session.
C16_UploadIsSessionsChunks ==
  \A i \in 1..Len(subs) :
    subs[i].mode = "recording" => subs[i].body = SessionChunks(subs[i].session)

\* the capture of session s is over: its recorder does not record and no stop
\* event of it is outstanding
CaptureOver(s) == streams[s].recorder # "recording" /\ ~streams[s].stopQueued

\* C17: no track is released twice, and a session whose capture is over, by
\* stop() or by a failure, has had its tracks released exactly once.
C17_TracksReleasedOnce ==
  \A s \in Streams :
    /\ streams[s].trackStops <= 1
    /\ CaptureOver(s) => streams[s].tracks = "ended" /\ streams[s].trackStops = 1

\* C18: one timer is started on entering RECORDING and cancelled at the
\* accepted stop(): a timer tick happens only while the controller is
\* RECORDING, and then exactly one timer is running.
C18_TicksOnlyWhileRecording ==
  [][Ticks => (Recording /\ Cardinality(intervals) = 1)]_vars

(* ---------------------------- notifications ---------------------------- *)
\* the last handler was the settlement of a failed submission
Failed == lastEvent.op = "fetchSettled" /\ lastEvent.what \in Failures

\* the message that names the input mode
ModeMessage(mode) ==
  CASE mode = "text" -> "Failed to process text. Please try again."
    [] mode = "file" -> "Failed to process audio. Please try again."
    [] mode = "recording" -> "Failed to process recording. Please try again."

\* C19 as stated: a failed submission is notified with the message of its input
\* mode, for a non-success status and for a transport or parse failure alike.
C19_ModeSpecificMessageAlways ==
  Failed => lastEvent.messages = <<ModeMessage(lastEvent.mode)>>

\* C19 (amended): a submission answered with a non-success status is notified
\* with the message of its input mode; a submission whose transport or response
\* parsing failed, or whose response was null, is notified with the one generic
\* message, the same for all three modes.
C19_MessageByFailureKind ==
  Failed =>
    IF lastEvent.what = "rejected"
      THEN lastEvent.messages = <<ModeMessage(lastEvent.mode)>>
      ELSE lastEvent.messages = <<"An error occurred. Please try again.">>

\* a recording whose response could not be parsed
C19_Witness ==
  /\ Failed
  /\ lastEvent.what = "badjson"
  /\ lastEvent.mode = "recording"
  /\ lastEvent.messages = <<GenericErrorMessage>>

(* ------------------- recording UI against recording state -------------- *)
\* a recording upload is in flight
RecordingUploadPending == \E i \in 1..Len(subs) : subs[i].mode = "recording"

\* C20: when the start button is shown, the stop button hidden and no
\* permission request pending, no recorder records, no stream has live tracks
\* and no timer runs; when the stop button is shown, the current recorder
\* records or a stop completion or a recording upload is pending.
C20_UiAgreesWithRecordingState ==
  /\ (~startRecordingBtn.hidden /\ stopRecordingBtn.hidden /\ permissionRequests = 0)
       => /\ \A s \in Streams : streams[s].recorder # "recording"
          /\ \A s \in Streams : streams[s].tracks # "live"
          /\ intervals = {}
  /\ ~stopRecordingBtn.hidden
       => (Recording \/ PendingStops > 0 \/ RecordingUploadPending)

====
